---- MODULE Spec2Model ----
(***************************************************************************)
(* A model of src/src/server.ts: the MCP gateway of mcp-wordpress.          *)
(*                                                                         *)
(* One process.  main() reads the environment and starts either the stdio  *)
(* binding or the HTTP binding.  The HTTP binding keeps the Map `sessions` *)
(* (session id -> {server, transport}), guards every route with the bearer *)
(* middleware when MCP_API_TOKEN is truthy, and routes POST/GET/DELETE on  *)
(* /mcp by the Mcp-Session-Id header.  setupProcessHandlers installs the   *)
(* four shutdown triggers.                                                 *)
(*                                                                         *)
(* JavaScript runs the handlers on one thread: a handler runs without      *)
(* interruption up to its next `await`.  Every action below is one such    *)
(* run: from the event that starts or resumes a handler to the await at    *)
(* which it suspends (or to its return).                                   *)
(*                                                                         *)
(* The SDK classes (McpServer, StreamableHTTPServerTransport) are not part *)
(* of the repository.  They are modelled by what server.ts relies on: the  *)
(* transport calls sessionIdGenerator and then onsessioninitialized when   *)
(* it handles an initialize request, calls onsessionclosed and closes      *)
(* itself when it handles a DELETE, and calls onclose when it is closed.   *)
(* Every awaited SDK call may also throw.                                  *)
(***************************************************************************)
EXTENDS Naturals, Integers, Sequences, FiniteSets, Bags, TLC

(***************************************************************************)
(* Bounds of the model.                                                    *)
(***************************************************************************)
\* Requests that may be suspended at an await at the same time.
MaxInFlight == 2

\* The same, where every request of McpRequests is sent (SpecGate).
GateInFlight == 1

\* Sessions (engine/transport pairs) created during the process lifetime.
MaxPairs == 2

(***************************************************************************)
(* JavaScript values.  A value that may be undefined is a record           *)
(* [def, s]; Truthy is JavaScript's truthiness of string | undefined.      *)
(***************************************************************************)
Undefined == [def |-> FALSE, s |-> ""]

Str(s) == [def |-> TRUE, s |-> s]

Truthy(v) == v.def /\ v.s # ""

\* A header value as node hands it over: undefined, a string, or an array.
HdrUndefined == [t |-> "undefined", s |-> "", a |-> <<>>]

HdrStr(s) == [t |-> "string", s |-> s, a |-> <<>>]

HdrArr(a) == [t |-> "array", s |-> "", a |-> a]

\* !value of string | string[] | undefined: an array is always truthy.
HdrFalsy(value) == value.t = "undefined" \/ (value.t = "string" /\ value.s = "")

(***************************************************************************)
(* Program constants.                                                      *)
(***************************************************************************)
HTTP_OK == 200

HTTP_BAD_REQUEST == 400

HTTP_UNAUTHORIZED == 401

HTTP_NOT_FOUND == 404

HTTP_INTERNAL == 500

CODE_UNAUTHORIZED == -32001

CODE_UNKNOWN_SESSION == -32000

CODE_INVALID_REQUEST == -32600

CODE_INTERNAL == -32603

EXIT_OK == 0

EXIT_FAULT == 1

\* No exit code yet (the process is running).
NoExit == 0 - 1

(***************************************************************************)
(* Response bodies.                                                        *)
(***************************************************************************)
\* res.json({jsonrpc: '2.0', error: {code, message}, id: null})
JsonRpcError(code, message) == [kind |-> "jsonrpc", code |-> code, text |-> message]

\* res.send('...')
TextBody(text) == [kind |-> "text", code |-> 0, text |-> text]

\* A body written by the SDK transport itself (the protocol's own answer).
SdkBody == [kind |-> "sdk", code |-> 0, text |-> ""]

NoBody == [kind |-> "none", code |-> 0, text |-> ""]

(***************************************************************************)
(* The JavaScript Map `sessions`: a sequence of entries in insertion order *)
(* (the order a for...of loop visits them in).                             *)
(***************************************************************************)
MapKeys(m) == {m[i].id : i \in 1..Len(m)}

MapHas(m, k) == k \in MapKeys(m)

\* Map.get: the entry's value, or 0 for undefined.
MapGet(m, k) == IF MapHas(m, k) THEN (CHOOSE e \in {m[i] : i \in 1..Len(m)} : e.id = k).pair ELSE 0

\* Map.set: replaces the value of an existing key in place, appends a new key.
MapSet(m, k, v) ==
    IF MapHas(m, k)
    THEN [i \in 1..Len(m) |-> IF m[i].id = k THEN [id |-> k, pair |-> v] ELSE m[i]]
    ELSE Append(m, [id |-> k, pair |-> v])

\* Map.delete: removes the key's entry, if any.
MapDelete(m, k) == SelectSeq(m, LAMBDA e : e.id # k)

(***************************************************************************)
(* Pure functions of server.ts.                                            *)
(***************************************************************************)
\* getSessionId with the last value of a repeated header winning.
getSessionIdLast(value) ==
    IF HdrFalsy(value) THEN Undefined
    ELSE IF value.t = "array"
         THEN (IF Len(value.a) = 0 THEN Undefined ELSE Str(value.a[Len(value.a)]))
         ELSE Str(value.s)

\* getSessionId(value): undefined for a falsy value, the first element of an
\* array (undefined for an empty one), the string itself otherwise.
getSessionId(value) ==
    IF HdrFalsy(value) THEN Undefined
    ELSE IF value.t = "array"
         THEN (IF Len(value.a) = 0 THEN Undefined ELSE Str(value.a[1]))
         ELSE Str(value.s)

\* ensureSession(sessionId): sessions.get(sessionId), null (0) when absent.
ensureSession(m, sessionId) ==
    LET session == MapGet(m, sessionId)
    IN  IF session = 0 THEN 0 ELSE session

\* isInitializeRequest(req.body): the SDK's test of the parsed body.
isInitializeRequest(body) == body = "initialize"

\* A generator that draws the same value again.
randomUUIDRepeating(k) == "uuid-" \o ToString(1)

\* sessionIdGenerator: () => randomUUID().  The k-th UUID drawn; two draws
\* never give the same value.
randomUUID(k) == "uuid-" \o ToString(k)

\* if (requiredToken): the middleware is installed for a truthy token only.
AuthInstalled(requiredToken) == Truthy(requiredToken)

\* The header test with only the presence of an Authorization header tested.
AuthHeaderPresent(requiredToken, authHeader) == authHeader.def

\* authHeader === `Bearer ${requiredToken}`
AuthHeaderOk(requiredToken, authHeader) ==
    authHeader.def /\ authHeader.s = "Bearer " \o requiredToken.s

\* The middleware chain in front of the routes: next() is called when no
\* middleware is installed or the header matches.
AuthGate(requiredToken, authHeader) ==
    AuthInstalled(requiredToken) => AuthHeaderOk(requiredToken, authHeader)

\* shutdown(0) for SIGTERM and SIGINT, shutdown(1) for the two fault events.
TriggerKinds == {"SIGTERM", "SIGINT", "uncaughtException", "unhandledRejection"}

TriggerCode(kind) == IF kind \in {"SIGTERM", "SIGINT"} THEN EXIT_OK ELSE EXIT_FAULT

(***************************************************************************)
(* State.                                                                  *)
(***************************************************************************)
VARIABLES
    env,            \* process.env: PORT, MCP_PORT, MCP_API_TOKEN, WORDPRESS_API_URL
    phase,          \* "starting" (main has not run), "running", "exited"
    mode,           \* "none", "http", "stdio": the binding main started
    listenPort,     \* startHttpServer's port (as the string it is read from)
    listening,      \* the HTTP listener accepts requests
    warnings,       \* 'MCP_API_TOKEN is not set' warnings logged
    sessions,       \* the Map sessions of startHttpServer
    pairs,          \* every {server, transport} pair createMcpServer built
    nextId,         \* UUIDs drawn so far, plus one
    inflight,       \* bag of the requests suspended at an await
    last,           \* what the last step did to a request (NoEvent otherwise)
    shuttingDown,   \* setupProcessHandlers' flag
    cl,             \* where the cleanup closure is suspended
    exitCode,       \* the code process.exit was called with, NoExit before
    trigs,          \* the shutdown triggers received, in order
    cleanupStarts,  \* calls of cleanup()
    disturbed,      \* a request was in flight at the first trigger or came later
    swept,          \* entries the cleanup loop has taken from the table
    closeErrors,    \* the close calls of cleanup() that threw: "session",
                    \* "listener", "stdioTransport", "stdioEngine"
    load            \* the load the clients put on the server (the bounds)

vars == <<env, phase, mode, listenPort, listening, warnings, sessions, pairs,
          nextId, inflight, last, shuttingDown, cl, exitCode, trigs,
          cleanupStarts, disturbed, swept, closeErrors, load>>

procVars == <<env, phase, mode, listenPort, listening, warnings, load>>

shutVars == <<shuttingDown, cl, exitCode, trigs, cleanupStarts, swept, closeErrors>>

\* A {server, transport} pair.  sid is transport.sessionId; tclose and
\* eclose count the calls of transport.close() and server.close();
\* returned: the id went out in a response header; closed: a close event
\* (onsessionclosed, onclose, the cleanup loop) has happened for it.
NewPair ==
    [sid |-> Undefined, tclose |-> 0, eclose |-> 0,
     returned |-> FALSE, closed |-> FALSE]

NoEvent ==
    [ev |-> "none", method |-> "", path |-> "", auth |-> Undefined,
     hdr |-> HdrUndefined, reqBody |-> "", route |-> "", pair |-> 0,
     status |-> 0, body |-> NoBody, sid |-> Undefined, how |-> ""]

NoCleanup == [pc |-> "none", sid |-> "", pair |-> 0, code |-> NoExit]

\* The values of the environment the model starts from.
EnvPorts == {Undefined, Str("8080")}

EnvMcpPorts == {Undefined, Str("9090")}

EnvTokens == {Undefined, Str(""), Str("secret")}

EnvUrls == {Undefined, Str("https://wp.example")}

Envs == [PORT : EnvPorts, MCP_PORT : EnvMcpPorts,
         MCP_API_TOKEN : EnvTokens, WORDPRESS_API_URL : EnvUrls]

\* The state before main() runs, in an environment of `envs`.
InitIn(envs, inFlight, nPairs) ==
    /\ env \in envs
    /\ load = [inFlight |-> inFlight, pairs |-> nPairs]
    /\ phase = "starting"
    /\ mode = "none"
    /\ listenPort = ""
    /\ listening = FALSE
    /\ warnings = 0
    /\ sessions = <<>>
    /\ pairs = <<>>
    /\ nextId = 1
    /\ inflight = EmptyBag
    /\ last = NoEvent
    /\ shuttingDown = FALSE
    /\ cl = NoCleanup
    /\ exitCode = NoExit
    /\ trigs = <<>>
    /\ cleanupStarts = 0
    /\ disturbed = FALSE
    /\ swept = 0
    /\ closeErrors = {}

Init == InitIn(Envs, MaxInFlight, MaxPairs)

(***************************************************************************)
(* main                                                                    *)
(***************************************************************************)
\* process.env.PORT ?? process.env.MCP_PORT ?? 8080
PortOf(e) == IF e.PORT.def THEN e.PORT.s ELSE IF e.MCP_PORT.def THEN e.MCP_PORT.s ELSE "8080"

\* if (process.env.PORT) startHttpServer else startStdioServer
UseHttp(e) == Truthy(e.PORT)

Exit(code) ==
    /\ phase' = "exited"
    /\ exitCode' = code

\* main(): fails fast without WORDPRESS_API_URL or when initWordPress or
\* the listener throws; otherwise starts one binding and installs the
\* process handlers.
main ==
    /\ phase = "starting"
    /\ last' = NoEvent
    /\ UNCHANGED <<env, load, sessions, nextId, inflight, shuttingDown, cl, trigs,
                   cleanupStarts, disturbed, swept, closeErrors>>
    /\ IF ~Truthy(env.WORDPRESS_API_URL)
       THEN /\ Exit(EXIT_FAULT)
            /\ UNCHANGED <<mode, listenPort, listening, warnings, pairs>>
       ELSE \E started \in BOOLEAN :
              IF ~started
              THEN /\ Exit(EXIT_FAULT)
                   /\ UNCHANGED <<mode, listenPort, listening, warnings, pairs>>
              ELSE /\ phase' = "running"
                   /\ exitCode' = exitCode
                   /\ IF UseHttp(env)
                      THEN /\ mode' = "http"
                           /\ listenPort' = PortOf(env)
                           /\ listening' = TRUE
                           /\ warnings' = IF AuthInstalled(env.MCP_API_TOKEN)
                                          THEN warnings ELSE warnings + 1
                           /\ pairs' = pairs
                      ELSE /\ mode' = "stdio"
                           /\ pairs' = <<NewPair>>
                           /\ UNCHANGED <<listenPort, listening, warnings>>

(***************************************************************************)
(* The HTTP routes.  A request is served while the listener is open.       *)
(***************************************************************************)
Serving == phase = "running" /\ mode = "http" /\ listening

\* The requests the model sends.  A client knows the ids the server has
\* drawn, and may send any of them, alone or first in a repeated header;
\* "abc" was never created.
KnownIds == {randomUUID(k) : k \in 1..(nextId - 1)}

Auths == {Undefined, Str("Bearer secret"), Str("Bearer wrong")}

Hdrs ==
    {HdrUndefined, HdrStr(""), HdrStr("abc")}
        \cup {HdrStr(id) : id \in KnownIds}
        \cup {HdrArr(<<id, "abc">>) : id \in KnownIds}

Bodies == {"initialize", "tools/call"}

Request(method, path, auth, hdr, reqBody) ==
    [method |-> method, path |-> path, auth |-> auth, hdr |-> hdr, reqBody |-> reqBody]

McpRequests ==
    {Request(m, "/mcp", a, h, b) : m \in {"POST"}, a \in Auths, h \in Hdrs, b \in Bodies}
        \cup {Request(m, "/mcp", a, h, "") : m \in {"GET", "DELETE"}, a \in Auths, h \in Hdrs}

PlainRequests == {Request("GET", p, a, HdrUndefined, "") : p \in {"/healthz", "/"}, a \in Auths}

Received(req, route, pair, status, body) ==
    [ev |-> "received", method |-> req.method, path |-> req.path, auth |-> req.auth,
     hdr |-> req.hdr, reqBody |-> req.reqBody, route |-> route, pair |-> pair,
     status |-> status, body |-> body, sid |-> Undefined, how |-> ""]

Suspend(pc, method, pair) == [pc |-> pc, method |-> method, pair |-> pair]

\* A request that arrives after a shutdown trigger disturbs the shutdown.
Arrival == disturbed' = (disturbed \/ shuttingDown)

\* The bearer middleware answers 401 and does not call next().
Unauthorized(req) ==
    /\ Serving
    /\ ~AuthGate(env.MCP_API_TOKEN, req.auth)
    /\ last' = Received(req, "unauthorized", 0, HTTP_UNAUTHORIZED,
                        JsonRpcError(CODE_UNAUTHORIZED, "Unauthorized"))
    /\ Arrival
    /\ UNCHANGED <<procVars, shutVars, sessions, pairs, nextId, inflight>>

\* app.get('/healthz') and app.get('/')
Health(req) ==
    /\ Serving
    /\ AuthGate(env.MCP_API_TOKEN, req.auth)
    /\ last' = Received(req, "health", 0, HTTP_OK, TextBody("ok"))
    /\ Arrival
    /\ UNCHANGED <<procVars, shutVars, sessions, pairs, nextId, inflight>>

\* createSession(): a new server and a new transport, not yet in the table.
createSession(ps) == Append(ps, NewPair)

\* app.post('/mcp') with createSession() called before the body is looked at.
PostMcpEager(req) ==
    /\ Serving
    /\ AuthGate(env.MCP_API_TOKEN, req.auth)
    /\ req.method = "POST"
    /\ Arrival
    /\ UNCHANGED <<procVars, shutVars, sessions, nextId>>
    /\ LET sessionId == getSessionId(req.hdr)
           session == ensureSession(sessions, sessionId.s)
       IN  IF Truthy(sessionId)
           THEN IF session = 0
                THEN /\ last' = Received(req, "reject", 0, HTTP_NOT_FOUND,
                                  JsonRpcError(CODE_UNKNOWN_SESSION, "Unknown session ID"))
                     /\ UNCHANGED <<pairs, inflight>>
                ELSE /\ BagCardinality(inflight) < load.inFlight
                     /\ inflight' = inflight (+) SetToBag({Suspend("forward", "POST", session)})
                     /\ last' = Received(req, "existing", session, 0, NoBody)
                     /\ pairs' = pairs
           ELSE IF ~isInitializeRequest(req.reqBody)
                THEN /\ last' = Received(req, "reject", 0, HTTP_BAD_REQUEST,
                                  JsonRpcError(CODE_INVALID_REQUEST,
                                      "Initialization request required before other operations"))
                     /\ Len(pairs) < load.pairs
                     /\ pairs' = createSession(pairs)
                     /\ inflight' = inflight
                ELSE /\ BagCardinality(inflight) < load.inFlight
                     /\ Len(pairs) < load.pairs
                     /\ pairs' = createSession(pairs)
                     /\ inflight' = inflight (+) SetToBag({Suspend("connect", "POST", Len(pairs) + 1)})
                     /\ last' = Received(req, "new", Len(pairs) + 1, 0, NoBody)

\* app.post('/mcp'), to its first await or its return.
PostMcp(req) ==
    /\ Serving
    /\ AuthGate(env.MCP_API_TOKEN, req.auth)
    /\ req.method = "POST"
    /\ Arrival
    /\ UNCHANGED <<procVars, shutVars, sessions, nextId>>
    /\ LET sessionId == getSessionId(req.hdr)
           session == ensureSession(sessions, sessionId.s)
       IN  IF Truthy(sessionId)
           THEN IF session = 0
                THEN /\ last' = Received(req, "reject", 0, HTTP_NOT_FOUND,
                                  JsonRpcError(CODE_UNKNOWN_SESSION, "Unknown session ID"))
                     /\ UNCHANGED <<pairs, inflight>>
                ELSE /\ BagCardinality(inflight) < load.inFlight
                     /\ inflight' = inflight (+) SetToBag({Suspend("forward", "POST", session)})
                     /\ last' = Received(req, "existing", session, 0, NoBody)
                     /\ pairs' = pairs
           ELSE IF ~isInitializeRequest(req.reqBody)
                THEN /\ last' = Received(req, "reject", 0, HTTP_BAD_REQUEST,
                                  JsonRpcError(CODE_INVALID_REQUEST,
                                      "Initialization request required before other operations"))
                     /\ UNCHANGED <<pairs, inflight>>
                ELSE /\ BagCardinality(inflight) < load.inFlight
                     /\ Len(pairs) < load.pairs
                     /\ pairs' = createSession(pairs)
                     /\ inflight' = inflight (+) SetToBag({Suspend("connect", "POST", Len(pairs) + 1)})
                     /\ last' = Received(req, "new", Len(pairs) + 1, 0, NoBody)

\* app.get('/mcp') and app.delete('/mcp'), to the first await or the return.
GetOrDeleteMcp(req) ==
    /\ Serving
    /\ AuthGate(env.MCP_API_TOKEN, req.auth)
    /\ req.method \in {"GET", "DELETE"}
    /\ Arrival
    /\ UNCHANGED <<procVars, shutVars, sessions, nextId, pairs>>
    /\ LET sessionId == getSessionId(req.hdr)
           session == ensureSession(sessions, sessionId.s)
       IN  IF ~Truthy(sessionId)
           THEN /\ last' = Received(req, "reject", 0, HTTP_BAD_REQUEST, TextBody("Missing session ID"))
                /\ inflight' = inflight
           ELSE IF session = 0
                THEN /\ last' = Received(req, "reject", 0, HTTP_NOT_FOUND, TextBody("Unknown session ID"))
                     /\ inflight' = inflight
                ELSE /\ BagCardinality(inflight) < load.inFlight
                     /\ inflight' = inflight (+) SetToBag({Suspend("forward", req.method, session)})
                     /\ last' = Received(req, "existing", session, 0, NoBody)

(***************************************************************************)
(* The callbacks createSession gives the transport.                        *)
(***************************************************************************)
\* onsessioninitialized without its sessions.set.
onsessioninitializedDropped(m, sessionId, pair) == m

\* onsessioninitialized: sessionId => { if (sessionId) sessions.set(...) }
onsessioninitialized(m, sessionId, pair) ==
    IF sessionId # "" THEN MapSet(m, sessionId, pair) ELSE m

\* onsessionclosed: sessionId => { if (sessionId) sessions.delete(sessionId) }
onsessionclosed(m, sessionId) ==
    IF sessionId # "" THEN MapDelete(m, sessionId) ELSE m

\* transport.onclose with sessions.clear() for its sessions.delete.
oncloseTableClear(m, ps, pair) == <<>>

\* transport.onclose, the table: deletes transport.sessionId when it is set.
oncloseTable(m, ps, pair) ==
    IF Truthy(ps[pair].sid) THEN MapDelete(m, ps[pair].sid.s) ELSE m

\* transport.onclose, the engine: server.close() is called (and awaited in
\* a try/catch of its own: its error is logged and goes no further).
oncloseEngine(ps, pair) ==
    [ps EXCEPT ![pair].eclose = @ + 1, ![pair].closed = TRUE]

\* transport.close() is called on a pair.
transportClose(ps, pair) == [ps EXCEPT ![pair].tclose = @ + 1]

\* server.close() is called on a pair.
serverClose(ps, pair) == [ps EXCEPT ![pair].eclose = @ + 1]

\* A close event for the pair's id is on record.
MarkClosed(ps, pair) == [ps EXCEPT ![pair].closed = TRUE]

(***************************************************************************)
(* Resuming a suspended request.                                           *)
(***************************************************************************)
Completed(q, how, status, body, sid) ==
    [ev |-> "completed", method |-> q.method, path |-> "/mcp", auth |-> Undefined,
     hdr |-> HdrUndefined, reqBody |-> "", route |-> q.pc, pair |-> q.pair,
     status |-> status, body |-> body, sid |-> sid, how |-> how]

Without(bag, q) == bag (-) SetToBag({q})

\* The catch block of a route: 500 unless the response has begun.  POST
\* answers with the JSON-RPC envelope, GET and DELETE with plain text.
CatchStatus(headersSent) == IF headersSent THEN HTTP_OK ELSE HTTP_INTERNAL

CatchBody(method, headersSent) ==
    IF headersSent THEN SdkBody
    ELSE IF method = "POST" THEN JsonRpcError(CODE_INTERNAL, "Internal server error")
         ELSE TextBody("Internal server error")

\* The initialize path with the pair put in the table when connect returns,
\* before the transport has reported an id.
ConnectDonePublishing(q) ==
    /\ phase = "running"
    /\ q \in BagToSet(inflight)
    /\ q.pc = "connect"
    /\ UNCHANGED <<procVars, shutVars, nextId, disturbed>>
    /\ \E how \in {"ok", "throw"} :
         IF how = "ok"
         THEN /\ pairs' = pairs
              /\ sessions' = MapSet(sessions, "pending-" \o ToString(q.pair), q.pair)
              /\ inflight' = Without(inflight, q) (+) SetToBag({Suspend("init", q.method, q.pair)})
              /\ last' = Completed(q, how, 0, NoBody, Undefined)
         ELSE /\ pairs' = pairs
              /\ sessions' = sessions
              /\ inflight' = Without(inflight, q)
              /\ last' = Completed(q, how, CatchStatus(FALSE), CatchBody(q.method, FALSE), Undefined)

\* await session.server.connect(session.transport) returns or throws; on
\* return transport.handleRequest is called and the handler suspends again.
ConnectDone(q) ==
    /\ phase = "running"
    /\ q \in BagToSet(inflight)
    /\ q.pc = "connect"
    /\ UNCHANGED <<procVars, shutVars, sessions, nextId, disturbed>>
    /\ \E how \in {"ok", "throw"} :
         IF how = "ok"
         THEN /\ pairs' = pairs
              /\ inflight' = Without(inflight, q) (+) SetToBag({Suspend("init", q.method, q.pair)})
              /\ last' = Completed(q, how, 0, NoBody, Undefined)
         ELSE /\ pairs' = pairs
              /\ inflight' = Without(inflight, q)
              /\ last' = Completed(q, how, CatchStatus(FALSE), CatchBody(q.method, FALSE), Undefined)

\* The transport handles the initialize request: it draws the session id,
\* sets transport.sessionId and calls onsessioninitialized, then answers
\* with the id in Mcp-Session-Id.  It may throw before the id is drawn
\* ("throwEarly"), after the callback but before the response begins
\* ("throwPublished"), or after the response has begun ("throwStreaming").
InitForward(q) ==
    /\ phase = "running"
    /\ q \in BagToSet(inflight)
    /\ q.pc = "init"
    /\ UNCHANGED <<procVars, shutVars, disturbed>>
    /\ inflight' = Without(inflight, q)
    /\ \E how \in {"ok", "throwEarly", "throwPublished", "throwStreaming"} :
         LET id == randomUUID(nextId)
             begun == how \in {"ok", "throwStreaming"}
         IN  IF how = "throwEarly"
             THEN /\ UNCHANGED <<sessions, pairs, nextId>>
                  /\ last' = Completed(q, how, CatchStatus(FALSE), CatchBody(q.method, FALSE), Undefined)
             ELSE /\ nextId' = nextId + 1
                  /\ sessions' = onsessioninitialized(sessions, id, q.pair)
                  /\ pairs' = [pairs EXCEPT ![q.pair].sid = Str(id), ![q.pair].returned = begun]
                  /\ last' = Completed(q, how, CatchStatus(begun), CatchBody(q.method, begun),
                                       IF begun THEN Str(id) ELSE Undefined)

\* The transport handles a POST or GET of an existing session.
ForwardDone(q) ==
    /\ phase = "running"
    /\ q \in BagToSet(inflight)
    /\ q.pc = "forward"
    /\ q.method \in {"POST", "GET"}
    /\ UNCHANGED <<procVars, shutVars, sessions, pairs, nextId, disturbed>>
    /\ inflight' = Without(inflight, q)
    /\ \E how \in {"ok", "throw", "throwStreaming"} :
         LET begun == how # "throw"
         IN  last' = Completed(q, how, CatchStatus(begun), CatchBody(q.method, begun), Undefined)

\* The transport handles a DELETE: it calls onsessionclosed, then closes
\* itself, which calls onclose, then answers.  It may throw before the
\* callback ("throwEarly") or between the callback and the close
\* ("throwClosing").
DeleteDone(q) ==
    /\ phase = "running"
    /\ q \in BagToSet(inflight)
    /\ q.pc = "forward"
    /\ q.method = "DELETE"
    /\ UNCHANGED <<procVars, shutVars, nextId, disturbed>>
    /\ inflight' = Without(inflight, q)
    /\ \E how \in {"ok", "throwEarly", "throwClosing"} :
         LET sid == pairs[q.pair].sid.s
             begun == how = "ok"
         IN  /\ last' = Completed(q, how, CatchStatus(begun), CatchBody(q.method, begun), Undefined)
             /\ IF how = "throwEarly"
                THEN UNCHANGED <<sessions, pairs>>
                ELSE IF how = "throwClosing"
                     THEN /\ sessions' = onsessionclosed(sessions, sid)
                          /\ pairs' = MarkClosed(pairs, q.pair)
                     ELSE /\ sessions' = oncloseTable(onsessionclosed(sessions, sid), pairs, q.pair)
                          /\ pairs' = oncloseEngine(transportClose(pairs, q.pair), q.pair)

(***************************************************************************)
(* Shutdown: setupProcessHandlers and the two cleanup closures.            *)
(***************************************************************************)
\* The catch blocks of the cleanup closures log the error; the model
\* keeps which kind of close threw.
Thrown(threw, what) == IF threw THEN {what} ELSE {}

\* The cleanup closure going to httpServer.close() without a look at the
\* table.
CleanupNextListenerFirst(m, ps, code) ==
    /\ cl' = [pc |-> "listener", sid |-> "", pair |-> 0, code |-> code]
    /\ sessions' = m
    /\ pairs' = ps
    /\ listening' = FALSE
    /\ swept' = swept

\* The HTTP cleanup loop takes the next entry of `sessions` and calls its
\* transport.close(), which calls onclose unless it throws first; with no
\* entry left it calls httpServer.close().  Either way it suspends.
CleanupNext(m, ps, code) ==
    IF Len(m) > 0
    THEN \E fired \in BOOLEAN :
           LET e == Head(m)
               closing == transportClose(ps, e.pair)
           IN  /\ cl' = [pc |-> "transport", sid |-> e.id, pair |-> e.pair, code |-> code]
               /\ sessions' = IF fired THEN oncloseTable(m, ps, e.pair) ELSE m
               /\ pairs' = IF fired THEN oncloseEngine(closing, e.pair) ELSE closing
               /\ listening' = listening
               /\ swept' = swept + 1
    ELSE /\ cl' = [pc |-> "listener", sid |-> "", pair |-> 0, code |-> code]
         /\ sessions' = m
         /\ pairs' = ps
         /\ listening' = FALSE
         /\ swept' = swept

\* The stdio cleanup closure calls transport.close() and suspends.
StdioCleanup(ps, code) ==
    /\ cl' = [pc |-> "stdioTransport", sid |-> "", pair |-> 1, code |-> code]
    /\ pairs' = transportClose(ps, 1)
    /\ UNCHANGED <<sessions, listening, swept>>

\* shutdown(exitCode) without the test of shuttingDown.
shutdownUnguarded(kind) ==
    /\ phase = "running"
    /\ trigs' = Append(trigs, kind)
    /\ last' = NoEvent
    /\ UNCHANGED <<env, load, mode, listenPort, warnings, nextId, inflight, closeErrors>>
    /\ IF FALSE
       THEN /\ Exit(TriggerCode(kind))
            /\ UNCHANGED <<shuttingDown, cl, cleanupStarts, swept, disturbed,
                           sessions, pairs, listening>>
       ELSE /\ shuttingDown' = TRUE
            /\ cleanupStarts' = cleanupStarts + 1
            /\ disturbed' = (inflight # EmptyBag)
            /\ UNCHANGED <<phase, exitCode>>
            /\ IF mode = "http"
               THEN CleanupNext(sessions, pairs, TriggerCode(kind))
               ELSE StdioCleanup(pairs, TriggerCode(kind))

\* shutdown(exitCode), called by one of the four process handlers: exits at
\* once when a shutdown is under way, starts cleanup() otherwise.
shutdown(kind) ==
    /\ phase = "running"
    /\ trigs' = Append(trigs, kind)
    /\ last' = NoEvent
    /\ UNCHANGED <<env, load, mode, listenPort, warnings, nextId, inflight, closeErrors>>
    /\ IF shuttingDown
       THEN /\ Exit(TriggerCode(kind))
            /\ UNCHANGED <<shuttingDown, cl, cleanupStarts, swept, disturbed,
                           sessions, pairs, listening>>
       ELSE /\ shuttingDown' = TRUE
            /\ cleanupStarts' = cleanupStarts + 1
            /\ disturbed' = (inflight # EmptyBag)
            /\ UNCHANGED <<phase, exitCode>>
            /\ IF mode = "http"
               THEN CleanupNext(sessions, pairs, TriggerCode(kind))
               ELSE StdioCleanup(pairs, TriggerCode(kind))

\* The cleanup loop without the try/catch around transport.close(): the
\* error leaves cleanup(), shutdown catches it and exits.
CleanupAfterTransportUncaught ==
    /\ phase = "running"
    /\ cl.pc = "transport"
    /\ last' = NoEvent
    /\ UNCHANGED <<env, load, mode, listenPort, listening, warnings, sessions, nextId,
                   inflight, shuttingDown, trigs, cleanupStarts, swept, disturbed>>
    /\ \E threw \in BOOLEAN :
         /\ closeErrors' = closeErrors \cup Thrown(threw, "session")
         /\ IF threw
            THEN /\ Exit(cl.code)
                 /\ UNCHANGED <<pairs, cl>>
            ELSE /\ pairs' = serverClose(pairs, cl.pair)
                 /\ cl' = [cl EXCEPT !.pc = "engine"]
                 /\ UNCHANGED <<phase, exitCode>>

\* await session.transport.close() returns or throws (logged); the loop
\* calls session.server.close() and suspends.
CleanupAfterTransport ==
    /\ phase = "running"
    /\ cl.pc = "transport"
    /\ \E threw \in BOOLEAN : closeErrors' = closeErrors \cup Thrown(threw, "session")
    /\ pairs' = serverClose(pairs, cl.pair)
    /\ cl' = [cl EXCEPT !.pc = "engine"]
    /\ last' = NoEvent
    /\ UNCHANGED <<procVars, sessions, nextId, inflight, shuttingDown, exitCode,
                   trigs, cleanupStarts, swept, disturbed>>

\* await session.server.close() returns or throws (logged); the loop
\* deletes the entry and goes on with the next one.
CleanupAfterEngine ==
    /\ phase = "running"
    /\ cl.pc = "engine"
    /\ \E threw \in BOOLEAN : closeErrors' = closeErrors \cup Thrown(threw, "session")
    /\ CleanupNext(MapDelete(sessions, cl.sid), MarkClosed(pairs, cl.pair), cl.code)
    /\ last' = NoEvent
    /\ UNCHANGED <<env, load, phase, mode, listenPort, warnings, nextId, inflight,
                   shuttingDown, exitCode, trigs, cleanupStarts, disturbed>>

\* httpServer.close's callback: without an error once every connection
\* has ended, with one when the listener was not running.  cleanup()
\* returns or throws (caught by shutdown), and shutdown exits.
ListenerClosed ==
    /\ phase = "running"
    /\ cl.pc = "listener"
    /\ \E error \in BOOLEAN :
         /\ ~error => inflight = EmptyBag
         /\ closeErrors' = closeErrors \cup Thrown(error, "listener")
    /\ cl' = [cl EXCEPT !.pc = "done"]
    /\ Exit(cl.code)
    /\ last' = NoEvent
    /\ UNCHANGED <<env, load, mode, listenPort, listening, warnings, sessions, pairs,
                   nextId, inflight, shuttingDown, trigs, cleanupStarts, swept,
                   disturbed>>

\* The stdio cleanup without the try/catch around transport.close(): the
\* error leaves cleanup(), shutdown catches it and exits.
StdioAfterTransportUncaught ==
    /\ phase = "running"
    /\ cl.pc = "stdioTransport"
    /\ last' = NoEvent
    /\ UNCHANGED <<env, load, mode, listenPort, listening, warnings, sessions, nextId,
                   inflight, shuttingDown, trigs, cleanupStarts, swept, disturbed>>
    /\ \E threw \in BOOLEAN :
         /\ closeErrors' = closeErrors \cup Thrown(threw, "stdioTransport")
         /\ IF threw
            THEN /\ Exit(cl.code)
                 /\ UNCHANGED <<pairs, cl>>
            ELSE /\ pairs' = serverClose(pairs, cl.pair)
                 /\ cl' = [cl EXCEPT !.pc = "stdioEngine"]
                 /\ UNCHANGED <<phase, exitCode>>

\* stdio: await transport.close() returns or throws (logged); the closure
\* calls server.close() and suspends.
StdioAfterTransport ==
    /\ phase = "running"
    /\ cl.pc = "stdioTransport"
    /\ \E threw \in BOOLEAN : closeErrors' = closeErrors \cup Thrown(threw, "stdioTransport")
    /\ pairs' = serverClose(pairs, cl.pair)
    /\ cl' = [cl EXCEPT !.pc = "stdioEngine"]
    /\ last' = NoEvent
    /\ UNCHANGED <<procVars, sessions, nextId, inflight, shuttingDown, exitCode,
                   trigs, cleanupStarts, swept, disturbed>>

\* stdio: await server.close() returns or throws (logged); cleanup()
\* returns and shutdown exits.
StdioAfterEngine ==
    /\ phase = "running"
    /\ cl.pc = "stdioEngine"
    /\ \E threw \in BOOLEAN : closeErrors' = closeErrors \cup Thrown(threw, "stdioEngine")
    /\ cl' = [cl EXCEPT !.pc = "done"]
    /\ Exit(cl.code)
    /\ last' = NoEvent
    /\ UNCHANGED <<env, load, mode, listenPort, listening, warnings, sessions, pairs,
                   nextId, inflight, shuttingDown, trigs, cleanupStarts, swept,
                   disturbed>>

\* An awaited close that never settles: transport.close(), server.close()
\* or the callback of httpServer.close().  cleanup() has no timer and no
\* race, so it stays suspended at that await.
CloseHangs ==
    /\ phase = "running"
    /\ cl.pc \in {"transport", "engine", "listener", "stdioTransport", "stdioEngine"}
    /\ cl' = [cl EXCEPT !.pc = "hung"]
    /\ last' = NoEvent
    /\ UNCHANGED <<procVars, sessions, pairs, nextId, inflight, shuttingDown, exitCode,
                   trigs, cleanupStarts, swept, closeErrors, disturbed>>

(***************************************************************************)
(* The specification.                                                      *)
(***************************************************************************)
\* Resuming a suspended request.
Resume ==
    \/ \E q \in BagToSet(inflight) : ConnectDone(q)
    \/ \E q \in BagToSet(inflight) : InitForward(q)
    \/ \E q \in BagToSet(inflight) : ForwardDone(q)
    \/ \E q \in BagToSet(inflight) : DeleteDone(q)

\* The steps of the cleanup closures after their first await.
Cleanup ==
    \/ CleanupAfterTransport
    \/ CleanupAfterEngine
    \/ ListenerClosed
    \/ StdioAfterTransport
    \/ StdioAfterEngine

\* The whole program.
Next ==
    \/ main
    \/ \E req \in PlainRequests : Health(req)
    \/ \E req \in McpRequests \cup PlainRequests : Unauthorized(req)
    \/ \E req \in McpRequests : PostMcp(req)
    \/ \E req \in McpRequests : GetOrDeleteMcp(req)
    \/ Resume
    \/ \E kind \in TriggerKinds : shutdown(kind)
    \/ Cleanup
    \/ CloseHangs

Spec == Init /\ [][Next]_vars

(***************************************************************************)
(* Parts of Spec, each small enough to check exhaustively.  Every          *)
(* behaviour of each is a behaviour of Spec.                               *)
(*                                                                         *)
(* SpecGate: the HTTP binding under every request of McpRequests and       *)
(* PlainRequests and every MCP_API_TOKEN, with no shutdown trigger.        *)
(*                                                                         *)
(* SpecLife: both bindings, sessions and shutdown.  The clients send only  *)
(* requests that pass the gate and carry no header or an id the server     *)
(* has drawn; the triggers are SIGTERM and uncaughtException.              *)
(*                                                                         *)
(* SpecExit: as SpecLife under all four triggers, with one request in      *)
(* flight at a time.                                                       *)
(***************************************************************************)
GateEnvs == [PORT : {Str("8080")}, MCP_PORT : {Undefined},
             MCP_API_TOKEN : EnvTokens, WORDPRESS_API_URL : {Str("https://wp.example")}]

InitGate == InitIn(GateEnvs, GateInFlight, MaxPairs)

NextGate ==
    \/ main
    \/ \E req \in PlainRequests : Health(req)
    \/ \E req \in McpRequests \cup PlainRequests : Unauthorized(req)
    \/ \E req \in McpRequests : PostMcp(req)
    \/ \E req \in McpRequests : GetOrDeleteMcp(req)
    \/ Resume

SpecGate == InitGate /\ [][NextGate]_vars

LifeEnvs == [PORT : EnvPorts, MCP_PORT : {Undefined},
             MCP_API_TOKEN : {Str("secret")}, WORDPRESS_API_URL : {Str("https://wp.example")}]

LifeRequests ==
    {Request("POST", "/mcp", Str("Bearer secret"), HdrUndefined, "initialize")}
        \cup {Request(m, "/mcp", Str("Bearer secret"), HdrStr(id), "") :
                m \in {"GET", "DELETE"}, id \in KnownIds}

LifeTriggers == {"SIGTERM", "uncaughtException"}

InitLife == InitIn(LifeEnvs, MaxInFlight, MaxPairs)

NextLife ==
    \/ main
    \/ \E req \in LifeRequests : PostMcp(req)
    \/ \E req \in LifeRequests : GetOrDeleteMcp(req)
    \/ Resume
    \/ \E kind \in LifeTriggers : shutdown(kind)
    \/ Cleanup

SpecLife == InitLife /\ [][NextLife]_vars

InitExit == InitIn(LifeEnvs, GateInFlight, MaxPairs)

NextExit ==
    \/ main
    \/ \E req \in LifeRequests : PostMcp(req)
    \/ \E req \in LifeRequests : GetOrDeleteMcp(req)
    \/ Resume
    \/ \E kind \in TriggerKinds : shutdown(kind)
    \/ Cleanup

SpecExit == InitExit /\ [][NextExit]_vars

\* SpecBoot: main() in every environment of Envs, then the binding it
\* started under the plain requests and all four triggers, with no session.
InitBoot == InitIn(Envs, GateInFlight, MaxPairs)

NextBoot ==
    \/ main
    \/ \E req \in PlainRequests : Health(req)
    \/ \E req \in PlainRequests : Unauthorized(req)
    \/ \E kind \in TriggerKinds : shutdown(kind)
    \/ ListenerClosed
    \/ StdioAfterTransport
    \/ StdioAfterEngine

SpecBoot == InitBoot /\ [][NextBoot]_vars

\* SpecHang: sessions and shutdown as in SpecExit, where an awaited close
\* may also never settle.  The event loop runs every handler whose await
\* has settled, so each step of the program is weakly fair; requests,
\* triggers and hangs happen or not.
InitHang == InitIn(LifeEnvs, GateInFlight, MaxPairs)

NextHang ==
    \/ main
    \/ \E req \in LifeRequests : PostMcp(req)
    \/ \E q \in BagToSet(inflight) : ConnectDone(q)
    \/ \E q \in BagToSet(inflight) : InitForward(q)
    \/ \E kind \in LifeTriggers : shutdown(kind)
    \/ Cleanup
    \/ CloseHangs

FairHang ==
    /\ WF_vars(main)
    /\ WF_vars(\E q \in BagToSet(inflight) : ConnectDone(q))
    /\ WF_vars(\E q \in BagToSet(inflight) : InitForward(q))
    /\ WF_vars(Cleanup)

SpecHang == InitHang /\ [][NextHang]_vars /\ FairHang

(***************************************************************************)
(* The properties.                                                         *)
(***************************************************************************)
\* What a request's Mcp-Session-Id header carries: its values in order.
HeaderValues(h) ==
    IF h.t = "array" THEN h.a ELSE IF h.t = "string" THEN <<h.s>> ELSE <<>>

\* The request carries a session id: a first value that is not empty.
CarriesId(h) == Len(HeaderValues(h)) > 0 /\ HeaderValues(h)[1] # ""

TableEntries(m) == {m[i] : i \in 1..Len(m)}

\* C1: with a credential configured (MCP_API_TOKEN set and not empty), a
\* request reaches a route handler if and only if its Authorization header
\* is "Bearer " followed by the token; any other request is answered 401
\* with the JSON-RPC error -32001 and changes neither the table, nor the
\* pairs, nor the suspended requests.
C1_AuthGate ==
    [][LET token == env.MCP_API_TOKEN
           e == last'
           match == e.auth.def /\ e.auth.s = "Bearer " \o token.s
       IN  (e.ev = "received" /\ token.def /\ token.s # "") =>
             /\ (e.route # "unauthorized") <=> match
             /\ ~match =>
                  /\ e.status = 401
                  /\ e.body = [kind |-> "jsonrpc", code |-> -32001, text |-> "Unauthorized"]
                  /\ sessions' = sessions
                  /\ pairs' = pairs
                  /\ inflight' = inflight
                  /\ nextId' = nextId]_vars

\* C1, witness: a request that carries the id of a live session and a wrong
\* bearer token has been answered 401.
C1_Witness ==
    /\ last.ev = "received"
    /\ last.route = "unauthorized"
    /\ last.status = 401
    /\ last.auth = Str("Bearer wrong")
    /\ Len(sessions) > 0
    /\ last.hdr = HdrStr(sessions[1].id)

\* C2: a request on /mcp that passed the gate is routed by its method,
\* whether it carries an id, and whether that id is in the table: with an
\* id in the table it is forwarded to that entry's transport; with an id
\* not in the table it is rejected 404; without an id a POST of an
\* initialize body gets a newly created pair (and is forwarded to that pair
\* when its connect returns), and everything else is rejected 400.
C2_Router ==
    [][LET e == last'
           id == HeaderValues(e.hdr)[1]
           inTable == CarriesId(e.hdr) /\ \E x \in TableEntries(sessions) : x.id = id
       IN  /\ (e.ev = "received" /\ e.path = "/mcp" /\ e.route # "unauthorized") =>
                CASE inTable ->
                       /\ e.route = "existing"
                       /\ \E x \in TableEntries(sessions) : x.id = id /\ x.pair = e.pair
                       /\ inflight' = inflight (+) SetToBag({[pc |-> "forward",
                                            method |-> e.method, pair |-> e.pair]})
                  [] CarriesId(e.hdr) /\ ~inTable ->
                       /\ e.route = "reject"
                       /\ e.status = 404
                  [] ~CarriesId(e.hdr) /\ e.method = "POST" /\ e.reqBody = "initialize" ->
                       /\ e.route = "new"
                       /\ e.pair = Len(pairs) + 1
                       /\ Len(pairs') = Len(pairs) + 1
                       /\ inflight' = inflight (+) SetToBag({[pc |-> "connect",
                                            method |-> "POST", pair |-> e.pair]})
                  [] OTHER ->
                       /\ e.route = "reject"
                       /\ e.status = 400
           /\ (e.ev = "completed" /\ e.route = "connect" /\ e.how = "ok") =>
                BagIn([pc |-> "init", method |-> "POST", pair |-> e.pair], inflight')]_vars

\* C2, witness: a DELETE whose repeated header names a live session first
\* has been forwarded to that session.
C2_Witness ==
    /\ last.ev = "received"
    /\ last.route = "existing"
    /\ last.method = "DELETE"
    /\ last.hdr.t = "array"
    /\ MapGet(sessions, last.hdr.a[1]) = last.pair

\* C3, as claimed: every failure response is the JSON-RPC error envelope
\* with the code of its kind (401: -32001, 404: -32000, 400: -32600,
\* 500: -32603).
C3_AllFailuresJsonRpc ==
    last.status >= 400 =>
        /\ last.body.kind = "jsonrpc"
        /\ last.body.code = CASE last.status = 401 -> -32001
                              [] last.status = 404 -> -32000
                              [] last.status = 400 -> -32600
                              [] last.status = 500 -> -32603
                              [] OTHER -> 0

\* C4: a request rejected 400 or 404 leaves the table as it was, creates no
\* pair and suspends nothing.
C4_RejectFrame ==
    [][LET e == last'
       IN  (e.ev = "received" /\ e.route # "unauthorized" /\ e.status \in {400, 404}) =>
             /\ sessions' = sessions
             /\ pairs' = pairs
             /\ inflight' = inflight
             /\ nextId' = nextId]_vars

\* C4, witness: a POST without an id and without an initialize body has
\* been rejected 400 while a session is in the table.
C4_Witness ==
    /\ last.ev = "received"
    /\ last.method = "POST"
    /\ last.status = 400
    /\ last.reqBody = "tools/call"
    /\ Len(sessions) > 0

PairIds == 1..Len(pairs)

\* C5: an id that went out in an initialize response is in the table, with
\* the pair that request created, from the step the response begins until
\* a close event for it; a request that carries such an id is forwarded to
\* that pair and is not answered 404.
C5_ReturnedIdLive ==
    [][/\ \A p \in 1..Len(pairs') :
            (pairs'[p].returned /\ ~pairs'[p].closed) =>
                [id |-> pairs'[p].sid.s, pair |-> p] \in TableEntries(sessions')
       /\ \A p \in 1..Len(pairs') :
            (pairs'[p].returned /\ (p > Len(pairs) \/ ~pairs[p].returned)) =>
                /\ last'.sid = pairs'[p].sid
                /\ last'.status = 200
       /\ LET e == last'
          IN  \A p \in PairIds :
                (/\ e.ev = "received"
                 /\ CarriesId(e.hdr)
                 /\ pairs[p].returned
                 /\ ~pairs[p].closed
                 /\ pairs[p].sid.s = HeaderValues(e.hdr)[1]) =>
                    /\ e.route = "existing"
                    /\ e.pair = p
                    /\ e.status # 404]_vars

\* C5, witness: a GET with a returned id has been forwarded to its pair
\* after another session was closed.
C5_Witness ==
    /\ last.ev = "received"
    /\ last.route = "existing"
    /\ last.method = "GET"
    /\ pairs[last.pair].returned
    /\ last.hdr = HdrStr(pairs[last.pair].sid.s)
    /\ \E p \in PairIds : pairs[p].closed

\* C6: whatever the interleaving of the initialize requests, the pairs get
\* pairwise different ids, no two entries of the table share an id or a
\* pair, every entry holds the pair whose transport has its id, and every
\* initialized pair that has not been closed has its own entry.
C6_DistinctSessions ==
    /\ \A p, q \in PairIds :
         (p # q /\ pairs[p].sid.def /\ pairs[q].sid.def) => pairs[p].sid # pairs[q].sid
    /\ \A i, j \in 1..Len(sessions) :
         i # j => (sessions[i].id # sessions[j].id /\ sessions[i].pair # sessions[j].pair)
    /\ \A x \in TableEntries(sessions) : pairs[x.pair].sid = Str(x.id)
    /\ \A p \in PairIds :
         (pairs[p].sid.def /\ ~pairs[p].closed) =>
             [id |-> pairs[p].sid.s, pair |-> p] \in TableEntries(sessions)

\* C6, witness: two initialize requests were in flight together and the
\* one that came second was initialized first; both are in the table.
C6_Witness ==
    /\ Len(sessions) = 2
    /\ Len(pairs) = 2
    /\ pairs[1].sid = Str("uuid-2")
    /\ pairs[2].sid = Str("uuid-1")

\* C7: after any close events for an id the id is not in the table; a step
\* removes no entry but those of ids it closes; a DELETE for a closed id
\* is answered 404 'Unknown session ID', changes nothing and is no
\* shutdown trigger.
C7_CloseIdempotent ==
    [][/\ \A p \in 1..Len(pairs') :
            (pairs'[p].closed /\ pairs'[p].sid.def) =>
                ~\E x \in TableEntries(sessions') : x.id = pairs'[p].sid.s
       /\ \A x \in TableEntries(sessions) :
            ~pairs'[x.pair].closed => x \in TableEntries(sessions')
       /\ LET e == last'
          IN  \A p \in PairIds :
                (/\ e.ev = "received"
                 /\ e.method = "DELETE"
                 /\ CarriesId(e.hdr)
                 /\ pairs[p].closed
                 /\ pairs[p].sid = Str(HeaderValues(e.hdr)[1])) =>
                    /\ e.status = 404
                    /\ e.body.text = "Unknown session ID"
                    /\ sessions' = sessions
                    /\ pairs' = pairs
                    /\ inflight' = inflight
                    /\ trigs' = trigs
                    /\ phase' = phase]_vars

\* C7, witness: a session's transport was closed twice (two DELETEs in
\* flight together), a further DELETE for its id has been answered 404,
\* and the other session is still in the table.
C7_Witness ==
    /\ last.ev = "received"
    /\ last.method = "DELETE"
    /\ last.status = 404
    /\ Len(sessions) > 0
    /\ \E p \in PairIds :
         /\ pairs[p].closed
         /\ pairs[p].tclose >= 2
         /\ last.hdr = HdrStr(pairs[p].sid.s)

\* C8, as claimed: the process exits with the code of the first trigger
\* (0 for SIGTERM and SIGINT, 1 for the two fault events).
C8_ExitCodeOfFirstTrigger ==
    (phase = "exited" /\ Len(trigs) > 0) =>
        exitCode = (IF trigs[1] \in {"SIGTERM", "SIGINT"} THEN 0 ELSE 1)

\* C9: cleanup() is started at most once, and shuttingDown is set from the
\* step that starts it.
C9_CleanupOnce ==
    /\ cleanupStarts <= 1
    /\ (cleanupStarts = 1 \/ cl.pc # "none") => shuttingDown
    /\ Len(trigs) > 0 => cleanupStarts = 1

\* C9, witness: a second trigger came while cleanup() was suspended in the
\* loop, and cleanup() has been started once.
C9_Witness ==
    /\ Len(trigs) = 2
    /\ cleanupStarts = 1
    /\ cl.pc \in {"transport", "engine"}
    /\ phase = "exited"

\* C10: after one SIGTERM in HTTP mode, with no request in flight at the
\* trigger and none after it, the process has exited through the end of
\* cleanup(): the table is empty, every initialized pair has been closed,
\* the listener is closed and the exit code is 0, whichever close calls
\* threw.
C10_CalmSigterm ==
    (phase = "exited" /\ mode = "http" /\ trigs = <<"SIGTERM">> /\ ~disturbed) =>
        /\ cl.pc = "done"
        /\ sessions = <<>>
        /\ \A p \in PairIds : pairs[p].sid.def => pairs[p].closed
        /\ ~listening
        /\ exitCode = 0

\* C10, witness: such an exit after the loop took two sessions from the
\* table and a close of a session threw.
C10_Witness ==
    /\ phase = "exited"
    /\ mode = "http"
    /\ trigs = <<"SIGTERM">>
    /\ ~disturbed
    /\ swept = 2
    /\ "session" \in closeErrors
    /\ sessions = <<>>

\* C11, as claimed: with a credential configured, GET /healthz and GET /
\* are answered 200 whatever the Authorization header is.
C11_HealthAllowList ==
    (/\ last.ev = "received"
     /\ last.path \in {"/healthz", "/"}
     /\ env.MCP_API_TOKEN.def
     /\ env.MCP_API_TOKEN.s # "") => last.status = 200

\* C12, as claimed: the binding main() starts is HTTP if and only if PORT
\* or MCP_PORT is present, and stdio otherwise; one binding is started.
C12_HttpIffEitherPort ==
    phase = "running" =>
        /\ mode \in {"http", "stdio"}
        /\ (mode = "http") <=> (env.PORT.def \/ env.MCP_PORT.def)
        /\ (mode = "stdio") => (~listening /\ listenPort = "" /\ Len(pairs) = 1)
        /\ (mode = "http") => (listenPort # "" /\ cl.pc \notin {"stdioTransport", "stdioEngine"})

\* C13, as claimed: the startup warning is logged, and the gate is off,
\* only when MCP_API_TOKEN is unset; with MCP_API_TOKEN set, the empty
\* string included, a request whose Authorization header is not "Bearer "
\* followed by the token is answered 401.
C13_UnsetIsNotEmpty ==
    LET token == env.MCP_API_TOKEN
    IN  /\ phase = "running" => warnings = (IF token.def THEN 0 ELSE 1)
        /\ (/\ last.ev = "received"
            /\ token.def
            /\ last.auth # Str("Bearer " \o token.s)) => last.status = 401

\* C14: an entry of the table holds a pair whose transport has that id as
\* its session id; an entry is added only by the step in which the
\* transport reports the id (onsessioninitialized); a pair whose request
\* is still suspended at connect or before the report is in no entry, and
\* no request is routed to it; no two entries have the same id.
C14_OnlyInitializedInTable ==
    [][/\ \A x \in TableEntries(sessions') : pairs'[x.pair].sid = Str(x.id)
       /\ \A i, j \in 1..Len(sessions') : i # j => sessions'[i].id # sessions'[j].id
       /\ \A x \in TableEntries(sessions') \ TableEntries(sessions) :
            /\ last'.ev = "completed"
            /\ last'.route = "init"
            /\ last'.pair = x.pair
            /\ ~pairs[x.pair].sid.def
       /\ \A q \in BagToSet(inflight') :
            q.pc \in {"connect", "init"} =>
                /\ ~pairs'[q.pair].sid.def
                /\ ~\E x \in TableEntries(sessions') : x.pair = q.pair
       /\ (last'.ev = "received" /\ last'.route = "existing") =>
            pairs[last'.pair].sid.def]_vars

\* C14, witness: a request has been routed to the one session of the table
\* while the pair of a second initialize request awaits its id.
C14_Witness ==
    /\ last.ev = "received"
    /\ last.route = "existing"
    /\ Len(sessions) = 1
    /\ \E q \in BagToSet(inflight) :
         /\ q.pc = "init"
         /\ q.pair # last.pair
         /\ ~pairs[q.pair].sid.def

\* C15, as claimed: over all close paths, transport.close() and
\* server.close() are each called at most once for a session.
C15_ClosedExactlyOnce ==
    \A p \in PairIds : pairs[p].tclose <= 1 /\ pairs[p].eclose <= 1

\* C16: in the HTTP cleanup, the loop calls a session's server.close() only
\* after its transport.close() for that session has been awaited, and it
\* always does so then (a throw of transport.close() does not end the
\* loop: only a second trigger makes the process exit from inside the
\* loop); after the engine close the entry is deleted and the loop goes
\* on; httpServer.close() is called only when the closes of the last entry
\* have been awaited and no entry is left in the table.
C16_CleanupOrder ==
    [][/\ (cl'.pc = "engine" /\ cl' # cl) =>
            /\ cl.pc = "transport"
            /\ cl'.pair = cl.pair
            /\ pairs[cl.pair].tclose >= 1
            /\ pairs'[cl.pair].eclose = pairs[cl.pair].eclose + 1
       /\ (cl.pc = "transport" /\ cl' # cl) => cl'.pc = "engine"
       /\ (cl.pc \in {"transport", "engine"} /\ phase' = "exited") => trigs' # trigs
       /\ (cl.pc = "engine" /\ cl' # cl) =>
            /\ cl'.pc \in {"transport", "listener"}
            /\ cl.sid \notin MapKeys(sessions')
       /\ (cl'.pc = "transport" /\ cl' # cl) =>
            /\ cl.pc \in {"none", "engine"}
            /\ pairs'[cl'.pair].tclose = pairs[cl'.pair].tclose + 1
       /\ (cl'.pc = "listener" /\ cl' # cl) =>
            /\ cl.pc \in {"none", "engine"}
            /\ sessions' = <<>>
            /\ listening /\ ~listening']_vars

\* C16, witness: httpServer.close() has been called after the loop took
\* two sessions from the table and a close of a session threw.
C16_Witness ==
    /\ phase = "running"
    /\ cl.pc = "listener"
    /\ swept = 2
    /\ "session" \in closeErrors
    /\ \A p \in PairIds : pairs[p].tclose >= 1 /\ pairs[p].eclose >= 1

\* C17: in stdio mode there is one engine/transport pair and the table is
\* empty; the cleanup calls transport.close() first and server.close()
\* second, each once; whichever of the two throws, the other is still
\* called, and with one trigger the process exits at the end of cleanup()
\* with that trigger's code (0 for a signal, 1 for a fault).
C17_StdioShutdown ==
    [][mode' = "stdio" =>
         /\ Len(pairs') = 1
         /\ sessions' = <<>>
         /\ (cl'.pc = "stdioTransport" /\ cl' # cl) =>
              /\ cl.pc = "none"
              /\ pairs[1].tclose = 0 /\ pairs[1].eclose = 0
              /\ pairs'[1].tclose = 1 /\ pairs'[1].eclose = 0
         /\ (cl.pc = "stdioTransport" /\ cl' # cl) =>
              /\ cl'.pc = "stdioEngine"
              /\ pairs'[1].tclose = 1 /\ pairs'[1].eclose = 1
         /\ (cl.pc = "stdioEngine" /\ cl' # cl) => (cl'.pc = "done" /\ phase' = "exited")
         /\ (phase' = "exited" /\ Len(trigs') = 1) =>
              /\ cl'.pc = "done"
              /\ pairs'[1].tclose = 1 /\ pairs'[1].eclose = 1
              /\ exitCode' = (IF trigs'[1] \in {"SIGTERM", "SIGINT"} THEN 0 ELSE 1)]_vars

\* C17, witness: after an unhandled rejection in stdio mode both closes
\* threw and the process has exited with code 1 at the end of cleanup().
C17_Witness ==
    /\ mode = "stdio"
    /\ phase = "exited"
    /\ cl.pc = "done"
    /\ trigs = <<"unhandledRejection">>
    /\ closeErrors = {"stdioTransport", "stdioEngine"}
    /\ pairs[1].eclose = 1
    /\ exitCode = 1

\* C18, as claimed: after the first shutdown trigger the process
\* eventually exits, also when an awaited close never settles and no
\* second trigger comes.
C18_CleanupTerminates == (Len(trigs) = 1) ~> (phase = "exited")

\* C19, as claimed: when the process exits at the end of a cleanup() that
\* returned, whatever requests were in flight or came during the cleanup,
\* the table is empty and every pair ever created has had its transport
\* and its engine closed.
C19_NoSessionLeftBehind ==
    (/\ phase = "exited"
     /\ mode = "http"
     /\ cl.pc = "done"
     /\ "listener" \notin closeErrors) =>
        /\ sessions = <<>>
        /\ \A p \in PairIds : pairs[p].tclose >= 1 /\ pairs[p].eclose >= 1

\* C20, as claimed: when the connect or the forward of an initialize POST
\* throws, the answer is 500 with code -32603 unless the response has
\* begun, the table has no entry for the pair created for the request, and
\* that pair's transport and engine have been closed.
C20_FailedInitLeavesNoTrace ==
    [][LET e == last'
       IN  (e.ev = "completed" /\ e.route \in {"connect", "init"} /\ e.how # "ok") =>
             /\ e.status = 500 => e.body = [kind |-> "jsonrpc", code |-> -32603,
                                            text |-> "Internal server error"]
             /\ ~\E x \in TableEntries(sessions') : x.pair = e.pair
             /\ pairs'[e.pair].tclose >= 1
             /\ pairs'[e.pair].eclose >= 1]_vars

====
